---------------------------- MODULE Spec2Model ----------------------------
(***************************************************************************)
(* textp2srt: manual subtitle blocks paired with DaVinci Resolve timeline  *)
(* text clips.  Model of src/src/textp2srt.py.                             *)
(*                                                                         *)
(* A Python str is a sequence of one-character strings; Chars turns a      *)
(* literal into that form.  Times are exact, in milliseconds.                 *)
(***************************************************************************)
EXTENDS Integers, Sequences, FiniteSets, TLC

VARIABLES
    pc,                \* position of the running command
    path,              \* parse_manual: the path argument ("" when none was given)
    fileText,          \* parse_manual: content of the manual input file
    blocks,            \* parse_manual: the returned list of blocks
    timeline,          \* whether Resolve has a current timeline
    tracks,            \* the timeline's video tracks: name and items
    track_name,        \* the track argument
    include_text_plus, \* --include-text-plus
    ignore_effects,    \* not --no-ignore-effects
    extra_ignore,      \* --extra-ignore patterns
    items,             \* write_srt: clips; write_srt_mixed: items
    i,                 \* number of loop iterations done
    manual_idx,        \* write_srt_mixed: cursor into the manual blocks
    used_manual,       \* write_srt_mixed: blocks consumed
    entries,           \* write_srt_mixed: (start, end, txt) triples
    out,               \* the output file: whether it exists and its records
    log,               \* lines printed
    name,              \* _should_ignore: the name argument
    duration,          \* _should_ignore: the duration argument, in ms
    ret,               \* _should_ignore: the value returned
    kept,              \* collect_clips_with_ignored: the kept list
    ignored_list,      \* collect_clips_with_ignored: the ignored list
    primed,            \* watch: the first non-empty snapshot was seen
    last,              \* watch: last accepted (or primed) clipboard text
    outText,           \* watch: content of the output file
    snapshots,         \* watch: the decoded clipboard of every poll so far
    sec,               \* _fmt_time: the sec argument
    fmt                \* _fmt_time: the string returned

parseVars == <<path, fileText, blocks>>
optVars == <<timeline, tracks, track_name, include_text_plus, ignore_effects,
             extra_ignore>>
srtVars == <<items, i, manual_idx, used_manual, entries, out, log>>
ignoreVars == <<name, duration, ret>>
collectVars == <<kept, ignored_list>>
watchVars == <<primed, last, outText, snapshots>>
fmtVars == <<sec, fmt>>
otherVars == <<ignoreVars, collectVars, watchVars>>
vars == <<pc, parseVars, optVars, srtVars, ignoreVars, collectVars, watchVars,
          fmtVars>>

(***************************************************************************)
(* Bounds of the model.                                                    *)
(***************************************************************************)
MaxFileLen == 5

MaxItems == 3

MaxBlocks == 3

MaxNameLen == 3

MaxPolls == 3

(***************************************************************************)
(* Python str helpers.                                                     *)
(***************************************************************************)
Chars(s) == [k \in 1..Len(s) |-> SubSeq(s, k, k)]

\* Optional[str]: None, or a str
None == [none |-> TRUE, s |-> <<>>]

Some(s) == [none |-> FALSE, s |-> s]

\* truth value of an Optional[str]
Truthy(v) == ~v.none /\ v.s # <<>>

SetMin(S) == CHOOSE x \in S : \A y \in S : x <= y

SetMax(S) == CHOOSE x \in S : \A y \in S : x >= y

\* the characters str.strip() / str.lstrip() remove
Whitespace == {" ", "\n", "\t"}

\* str.lstrip()
LStrip(s) ==
    LET keep == {k \in 1..Len(s) : s[k] \notin Whitespace}
    IN  IF keep = {} THEN <<>> ELSE SubSeq(s, SetMin(keep), Len(s))

\* str.strip()
Strip(s) ==
    LET keep == {k \in 1..Len(s) : s[k] \notin Whitespace}
    IN  IF keep = {} THEN <<>> ELSE SubSeq(s, SetMin(keep), SetMax(keep))

\* mutant: the trailing newline is left on the line
RStripNLKeep(raw) == raw

\* raw.rstrip('\n')
RStripNL(raw) ==
    LET keep == {k \in 1..Len(raw) : raw[k] # "\n"}
    IN  IF keep = {} THEN <<>> ELSE SubSeq(raw, 1, SetMax(keep))

\* str.startswith(c) for a one-character prefix
StartsWith(s, c) == Len(s) >= 1 /\ s[1] = c

\* '\n'.join(parts)
RECURSIVE JoinNL(_)
JoinNL(parts) ==
    IF parts = <<>> THEN <<>>
    ELSE IF Len(parts) = 1 THEN parts[1]
    ELSE parts[1] \o <<"\n">> \o JoinNL(Tail(parts))

\* iteration over a text file: each item ends with its newline, the last
\* one possibly without
RECURSIVE FileLines(_)
FileLines(text) ==
    IF text = <<>> THEN <<>>
    ELSE LET nls == {k \in 1..Len(text) : text[k] = "\n"}
         IN  IF nls = {} THEN <<text>>
             ELSE <<SubSeq(text, 1, SetMin(nls))>>
                      \o FileLines(SubSeq(text, SetMin(nls) + 1, Len(text)))

(***************************************************************************)
(* parse_manual                                                            *)
(***************************************************************************)
\* mutant: a loose line before the first '>' opens a block of its own
ParseLineLoose(st, raw) ==
    LET line == RStripNL(raw)
    IN  IF StartsWith(line, ">")
        THEN [blocks |-> IF st.cur # <<>>
                         THEN Append(st.blocks, Strip(JoinNL(st.cur)))
                         ELSE st.blocks,
              cur    |-> <<LStrip(Tail(line))>>]
        ELSE [blocks |-> st.blocks, cur |-> Append(st.cur, line)]

\* one iteration of the loop over the file's lines
ParseLine(st, raw) ==
    LET line == RStripNL(raw)
    IN  IF StartsWith(line, ">")
        THEN [blocks |-> IF st.cur # <<>>
                         THEN Append(st.blocks, Strip(JoinNL(st.cur)))
                         ELSE st.blocks,
              cur    |-> <<LStrip(Tail(line))>>]
        ELSE IF st.cur # <<>>
             THEN [blocks |-> st.blocks, cur |-> Append(st.cur, line)]
             ELSE st

RECURSIVE ParseLoop(_, _)
ParseLoop(st, lines) ==
    IF lines = <<>> THEN st
    ELSE ParseLoop(ParseLine(st, Head(lines)), Tail(lines))

\* parse_manual(path), the file at path holding text
parse_manual(p, text) ==
    IF p = "" THEN <<>>
    ELSE LET st  == ParseLoop([blocks |-> <<>>, cur |-> <<>>], FileLines(text))
             all == IF st.cur # <<>>
                    THEN Append(st.blocks, Strip(JoinNL(st.cur)))
                    ELSE st.blocks
         IN  SelectSeq(all, LAMBDA b : b # <<>>)

(***************************************************************************)
(* _should_ignore                                                          *)
(***************************************************************************)
UpperLetters == Chars("ABCDEFGHIJKLMNOPQRSTUVWXYZ")

LowerLetters == Chars("abcdefghijklmnopqrstuvwxyz")

\* str.lower(); the katakana of the built-in patterns have no case
Lower(s) ==
    [k \in 1..Len(s) |->
        IF \E j \in 1..Len(UpperLetters) : UpperLetters[j] = s[k]
        THEN LowerLetters[CHOOSE j \in 1..Len(UpperLetters) : UpperLetters[j] = s[k]]
        ELSE s[k]]

\* p in s
Contains(s, p) ==
    \E k \in 0..(Len(s) - Len(p)) : SubSeq(s, k + 1, k + Len(p)) = p

\* set(s)
CharSet(s) == {s[k] : k \in 1..Len(s)}

\* the katakana names, one token per character
DEFAULT_IGNORE_NAMES ==
    << <<"<ka>", "<ra>", "<->", "<de>", "<i>", "<tsu>", "<pu>">>,
       <<"<ku>", "<ro>", "<su>", "<de>", "<i>", "<zo>", "<ru>", "<bu>">>,
       <<"<de>", "<i>", "<zo>", "<ru>", "<bu>">>,
       <<"<de>", "<i>", "<tsu>", "<pu>">>,
       Chars("Transition"), Chars("Dip"), Chars("Dissolve"),
       Chars("Cross Dissolve") >>

\* [p.lower() for p in DEFAULT_IGNORE_NAMES]
DefaultPatterns ==
    [k \in 1..Len(DEFAULT_IGNORE_NAMES) |-> Lower(DEFAULT_IGNORE_NAMES[k])]

\* duration threshold of the heuristic, 0.6 s, in milliseconds
ShortClipMs == 600

\* a name with fewer distinct characters than this is generic
MinDistinctChars == 6

\* mutant: the heuristic counts the characters, not the distinct ones
ShouldIgnoreByLength(name_, duration_, ignore_effects_, extra) ==
    IF ~ignore_effects_ THEN FALSE
    ELSE LET lname    == Lower(name_)
             patterns == DefaultPatterns
                         \o [k \in 1..Len(extra) |-> Lower(extra[k])]
         IN  IF \E k \in 1..Len(patterns) :
                    patterns[k] # <<>> /\ Contains(lname, patterns[k])
             THEN TRUE
             ELSE duration_ <= ShortClipMs /\ Len(lname) < MinDistinctChars

\* mutant: the name and the patterns are compared as they are written
ShouldIgnoreCaseSensitive(name_, duration_, ignore_effects_, extra) ==
    IF ~ignore_effects_ THEN FALSE
    ELSE LET patterns == DEFAULT_IGNORE_NAMES \o extra
         IN  IF \E k \in 1..Len(patterns) :
                    patterns[k] # <<>> /\ Contains(name_, patterns[k])
             THEN TRUE
             ELSE IF duration_ <= ShortClipMs
                  THEN Cardinality(CharSet(Lower(name_))) < MinDistinctChars
                  ELSE FALSE

\* _should_ignore(name, duration, ignore_effects, extra); duration in ms
ShouldIgnore(name_, duration_, ignore_effects_, extra) ==
    IF ~ignore_effects_ THEN FALSE
    ELSE LET lname    == Lower(name_)
             patterns == DefaultPatterns
                         \o [k \in 1..Len(extra) |-> Lower(extra[k])]
         IN  IF \E k \in 1..Len(patterns) :
                    patterns[k] # <<>> /\ Contains(lname, patterns[k])
             THEN TRUE
             ELSE IF duration_ <= ShortClipMs
                  THEN Cardinality(CharSet(lname)) < MinDistinctChars
                  ELSE FALSE

(***************************************************************************)
(* The timeline and the collection of its items.                           *)
(*                                                                         *)
(* A track is [name, items]; an item is [start, end] in frames, its name,  *)
(* and comp: whether GetFusionCompByIndex(1) gives a composition and the   *)
(* StyledText its TextPlus / Text tool returns.                            *)
(***************************************************************************)
\* timeline.GetSetting('timelineFrameRate')
TimelineFrameRate == 25

\* frames / fps, in milliseconds
Seconds(frames) == (frames * 1000) \div TimelineFrameRate

NoComp == [present |-> FALSE, StyledText |-> None]

Comp(text) == [present |-> TRUE, StyledText |-> text]

\* the items of every track called name_, in track order
RECURSIVE ItemsInTrack(_, _)
ItemsInTrack(trks, name_) ==
    IF trks = <<>> THEN <<>>
    ELSE (IF Head(trks).name = name_ THEN Head(trks).items ELSE <<>>)
             \o ItemsInTrack(Tail(trks), name_)

\* it.GetEnd()/fps - it.GetStart()/fps
Duration(it) == Seconds(it.end) - Seconds(it.start)

\* a clip as collect_clips returns it
Clip(it) ==
    [item |-> it, start |-> Seconds(it.start), end |-> Seconds(it.end),
     name |-> it.name]

\* mutant: Text+ clips are collected although they were to be excluded
CollectClipsAll(tl, trks, name_, exclude_text_plus, ignore_effects_, extra) ==
    IF ~tl THEN <<>>
    ELSE LET raw  == ItemsInTrack(trks, name_)
             keep == SelectSeq(raw, LAMBDA it :
                         ~ShouldIgnore(it.name, Duration(it), ignore_effects_, extra))
         IN  [k \in 1..Len(keep) |-> Clip(keep[k])]

\* collect_clips(track_name, exclude_text_plus, ignore_effects, extra_ignore),
\* tl telling whether there is a timeline
collect_clips(tl, trks, name_, exclude_text_plus, ignore_effects_, extra) ==
    IF ~tl THEN <<>>
    ELSE LET raw  == ItemsInTrack(trks, name_)
             keep == SelectSeq(raw, LAMBDA it :
                         /\ ~(exclude_text_plus /\ it.comp.present)
                         /\ ~ShouldIgnore(it.name, Duration(it), ignore_effects_, extra))
         IN  [k \in 1..Len(keep) |-> Clip(keep[k])]

\* collect_clips_with_ignored(...): kept and ignored, each ignored clip with
\* its reason
collect_clips_with_ignored(tl, trks, name_, exclude_text_plus, ignore_effects_, extra) ==
    IF ~tl THEN [kept |-> <<>>, ignored |-> <<>>]
    ELSE LET raw      == ItemsInTrack(trks, name_)
             IsTP(it) == exclude_text_plus /\ it.comp.present
             IsFx(it) == ShouldIgnore(it.name, Duration(it), ignore_effects_, extra)
             keep     == SelectSeq(raw, LAMBDA it : ~IsTP(it) /\ ~IsFx(it))
             drop     == SelectSeq(raw, LAMBDA it : IsTP(it) \/ IsFx(it))
         IN  [kept    |-> [k \in 1..Len(keep) |->
                              [item |-> keep[k], name |-> keep[k].name,
                               start |-> Seconds(keep[k].start),
                               end |-> Seconds(keep[k].end),
                               dur |-> Duration(keep[k])]],
              ignored |-> [k \in 1..Len(drop) |->
                              [item |-> drop[k],
                               reason |-> IF IsTP(drop[k]) THEN "text_plus"
                                          ELSE "effect",
                               name |-> drop[k].name,
                               start |-> Seconds(drop[k].start),
                               end |-> Seconds(drop[k].end),
                               dur |-> Duration(drop[k])]]]

\* write_srt_mixed, the gathering loop: the items before the sort
MixedGather(trks, name_, include_text_plus_, ignore_effects_, extra) ==
    LET raw  == ItemsInTrack(trks, name_)
        keep == SelectSeq(raw, LAMBDA it :
                    /\ ~ShouldIgnore(it.name, Duration(it), ignore_effects_, extra)
                    /\ ~(it.comp.present /\ ~include_text_plus_))
    IN  [k \in 1..Len(keep) |->
            [start    |-> Seconds(keep[k].start),
             end      |-> Seconds(keep[k].end),
             kind     |-> IF keep[k].comp.present THEN "text_plus" ELSE "text",
             api_text |-> IF keep[k].comp.present
                          THEN keep[k].comp.StyledText ELSE None,
             name     |-> keep[k].name]]

\* mutant: the items stay in enumeration order
SortByStartNone(s) == s

\* items.sort(key=lambda d: d['start']): a stable sort
RECURSIVE SortByStart(_)
SortByStart(s) ==
    IF s = <<>> THEN <<>>
    ELSE LET front == SortByStart(SubSeq(s, 1, Len(s) - 1))
             x     == s[Len(s)]
             k     == Cardinality({j \in 1..Len(front) : front[j].start <= x.start})
         IN  SubSeq(front, 1, k) \o <<x>> \o SubSeq(front, k + 1, Len(front))

(***************************************************************************)
(* write_srt and write_srt_mixed                                           *)
(***************************************************************************)
Min(a, b) == IF a <= b THEN a ELSE b

Max(a, b) == IF a >= b THEN a ELSE b

\* mutant: the loop runs over the longer of the two lists
PairCountLonger(bs, cs) == Max(Len(bs), Len(cs))

\* write_srt: count = min(len(blocks), len(clips))
PairCount(bs, cs) == Min(Len(bs), Len(cs))

\* mutant: the record is numbered from 0
SrtRecordZeroBased(idx, start, end, text) ==
    [idx |-> idx - 1, start |-> start, end |-> end, text |-> text]

\* one record of the output file: index, start --> end, text
SrtRecord(idx, start, end, text) ==
    [idx |-> idx, start |-> start, end |-> end, text |-> text]

Line(tag, a, b) == [tag |-> tag, a |-> a, b |-> b]

\* mutant: a Text+ clip always takes a manual block
MixedTextAlwaysManual(it, bs, idx) ==
    IF idx < Len(bs)
    THEN [txt |-> Strip(bs[idx + 1]), idx |-> idx + 1, used |-> 1]
    ELSE [txt |-> <<>>, idx |-> idx, used |-> 0]

\* write_srt_mixed, one iteration of the pairing loop: the text of the entry,
\* the cursor after it and the blocks it used
MixedText(it, bs, idx) ==
    IF it.kind = "text_plus" /\ Truthy(it.api_text)
    THEN [txt |-> Strip(it.api_text.s), idx |-> idx, used |-> 0]
    ELSE IF idx < Len(bs)
         THEN [txt |-> Strip(bs[idx + 1]), idx |-> idx + 1, used |-> 1]
         ELSE [txt |-> <<>>, idx |-> idx, used |-> 0]

(***************************************************************************)
(* Spec: the srt command.  _ensure_timeline, parse_manual, then            *)
(* write_srt_mixed with --include-text-plus, else collect_clips and        *)
(* write_srt.                                                              *)
(***************************************************************************)
\* the k-th manual block of the input file: k times "a"
BlockText(k) == [j \in 1..k |-> "a"]

\* a manual file of n blocks, each on a '>' line
RECURSIVE ManualFile(_)
ManualFile(n) ==
    IF n = 0 THEN <<>>
    ELSE ManualFile(n - 1) \o <<">">> \o BlockText(n) \o <<"\n">>

\* what a clip of the subtitle track can be: a plain Text clip, a
\* transition, a Text+ clip without text, with text, with blank text
ClipShapes ==
    { [name |-> Chars("Title"),          comp |-> NoComp],
      [name |-> Chars("Dip"),            comp |-> NoComp],
      [name |-> Chars("Text+"),          comp |-> Comp(None)],
      [name |-> Chars("Text+"),          comp |-> Comp(Some(Chars(" hi")))],
      [name |-> Chars("Text+"),          comp |-> Comp(Some(Chars(" ")))] }

\* without --include-text-plus the StyledText of a Text+ clip is never read
PlainModeShapes == {c \in ClipShapes : c.comp.StyledText.s # Chars(" ")
                                       /\ ~(c.comp.present /\ c.comp.StyledText.none)}

ClipStarts == {0, 50}

TrackItems(shapes) ==
    { [start |-> f, end |-> f + 50, name |-> c.name, comp |-> c.comp] :
          f \in ClipStarts, c \in shapes }

RECURSIVE ItemSeqsOfLen(_, _)
ItemSeqsOfLen(n, shapes) ==
    IF n = 0 THEN {<<>>}
    ELSE {Append(s, x) : s \in ItemSeqsOfLen(n - 1, shapes),
                         x \in TrackItems(shapes)}

ItemSeqs(shapes) == UNION {ItemSeqsOfLen(n, shapes) : n \in 0..MaxItems}

\* a second video track, which no command may read
OtherTrack ==
    [name  |-> "V1",
     items |-> <<[start |-> 0, end |-> 500, name |-> Chars("Footage"),
                  comp |-> NoComp]>>]

NoFile == [exists |-> FALSE, records |-> <<>>]

SrtIdle ==
    /\ items = <<>> /\ i = 0 /\ manual_idx = 0 /\ used_manual = 0
    /\ entries = <<>> /\ out = NoFile /\ log = <<>>

IgnoreIdle == name = <<>> /\ duration = 0 /\ ret = FALSE

CollectIdle == kept = <<>> /\ ignored_list = <<>>

WatchIdle ==
    /\ primed = FALSE /\ last = <<>> /\ outText = <<>> /\ snapshots = <<>>

FmtIdle == sec = [ms |-> 0, frac |-> 0] /\ fmt = <<>>

Init ==
    /\ pc = "srt"
    /\ timeline \in BOOLEAN
    /\ track_name = "Subs"
    /\ include_text_plus \in BOOLEAN
    /\ ignore_effects \in BOOLEAN
    /\ extra_ignore = <<>>
    /\ tracks \in IF timeline
                  THEN {<<[name |-> "Subs", items |-> s], OtherTrack>> :
                            s \in ItemSeqs(IF include_text_plus THEN ClipShapes
                                           ELSE PlainModeShapes)}
                  ELSE {<<>>}
    /\ path = "manual.txt"
    /\ fileText \in {ManualFile(n) : n \in 0..MaxBlocks}
    /\ blocks = <<>>
    /\ SrtIdle
    /\ FmtIdle
    /\ IgnoreIdle
    /\ CollectIdle
    /\ WatchIdle

\* _ensure_timeline() without a timeline: exit code 1
EnsureTimelineExit ==
    /\ pc = "srt"
    /\ ~timeline
    /\ log' = Append(log, Line("error_no_timeline", 0, 0))
    /\ pc' = "exit1"
    /\ UNCHANGED <<parseVars, optVars, fmtVars, items, i, manual_idx, used_manual,
                   entries, out>>
    /\ UNCHANGED otherVars

\* blocks = parse_manual(input)
SrtParse ==
    /\ pc = "srt"
    /\ timeline
    /\ blocks' = parse_manual(path, fileText)
    /\ pc' = IF include_text_plus THEN "write_srt_mixed" ELSE "collect_clips"
    /\ UNCHANGED <<path, fileText, optVars, fmtVars, srtVars>>
    /\ UNCHANGED otherVars

\* clips = collect_clips(track, exclude_text_plus=True, ...)
SrtCollectClips ==
    /\ pc = "collect_clips"
    /\ items' = collect_clips(timeline, tracks, track_name, TRUE,
                              ignore_effects, extra_ignore)
    /\ pc' = "write_srt"
    /\ UNCHANGED <<parseVars, optVars, fmtVars, i, manual_idx, used_manual, entries,
                   out, log>>
    /\ UNCHANGED otherVars

\* write_srt: the count, the warning, the file opened for writing
WriteSrtOpen ==
    /\ pc = "write_srt"
    /\ log' = IF Len(blocks) # Len(items)
              THEN Append(log, Line("warn_mismatch", Len(blocks), Len(items)))
              ELSE log
    /\ out' = [exists |-> TRUE, records |-> <<>>]
    /\ i' = 0
    /\ pc' = "write_srt_loop"
    /\ UNCHANGED <<parseVars, optVars, fmtVars, items, manual_idx, used_manual, entries>>
    /\ UNCHANGED otherVars

\* write_srt: one iteration of the loop; blocks[i] or clips[i] past the end
\* of its list raises IndexError
WriteSrtEntry ==
    /\ pc = "write_srt_loop"
    /\ i < PairCount(blocks, items)
    /\ IF i + 1 <= Len(blocks) /\ i + 1 <= Len(items)
       THEN /\ out' = [out EXCEPT !.records =
                          Append(@, SrtRecord(i + 1, items[i + 1].start,
                                              items[i + 1].end, blocks[i + 1]))]
            /\ i' = i + 1
            /\ pc' = pc
       ELSE /\ pc' = "raised"
            /\ UNCHANGED <<out, i>>
    /\ UNCHANGED <<parseVars, optVars, fmtVars, items, manual_idx, used_manual, entries,
                   log>>
    /\ UNCHANGED otherVars

\* write_srt: the loop is over, the file is closed
WriteSrtDone ==
    /\ pc = "write_srt_loop"
    /\ i >= PairCount(blocks, items)
    /\ log' = Append(log, Line("ok", PairCount(blocks, items), 0))
    /\ pc' = "done"
    /\ UNCHANGED <<parseVars, optVars, fmtVars, items, i, manual_idx, used_manual,
                   entries, out>>
    /\ UNCHANGED otherVars

\* write_srt_mixed: the items gathered and sorted by start
MixedGatherSort ==
    /\ pc = "write_srt_mixed"
    /\ IF ~timeline
       THEN /\ log' = Append(log, Line("error_no_timeline", 0, 0))
            /\ pc' = "done"
            /\ UNCHANGED items
       ELSE /\ items' = SortByStart(MixedGather(tracks, track_name,
                            include_text_plus, ignore_effects, extra_ignore))
            /\ pc' = "mixed_loop"
            /\ UNCHANGED log
    /\ i' = 0
    /\ manual_idx' = 0
    /\ used_manual' = 0
    /\ entries' = <<>>
    /\ UNCHANGED <<parseVars, optVars, fmtVars, out>>
    /\ UNCHANGED otherVars

\* write_srt_mixed: one iteration of the pairing loop
MixedEntry ==
    /\ pc = "mixed_loop"
    /\ i < Len(items)
    /\ LET it == items[i + 1]
           r  == MixedText(it, blocks, manual_idx)
       IN  /\ entries' = Append(entries, <<it.start, it.end, r.txt>>)
           /\ manual_idx' = r.idx
           /\ used_manual' = used_manual + r.used
    /\ i' = i + 1
    /\ UNCHANGED <<pc, parseVars, optVars, fmtVars, items, out, log>>
    /\ UNCHANGED otherVars

\* write_srt_mixed: the warnings, then the file written
MixedFinish ==
    /\ pc = "mixed_loop"
    /\ i = Len(items)
    /\ LET unused  == IF manual_idx < Len(blocks)
                      THEN <<Line("warn_unused", Len(blocks) - manual_idx, 0)>>
                      ELSE <<>>
           missing == Cardinality({k \in 1..Len(entries) : entries[k][3] = <<>>})
           empty   == IF missing # 0
                      THEN <<Line("warn_empty", missing, 0)>>
                      ELSE <<>>
       IN  log' = log \o unused \o empty
                      \o <<Line("ok", Len(entries), used_manual)>>
    /\ out' = [exists  |-> TRUE,
               records |-> [k \in 1..Len(entries) |->
                               SrtRecord(k, entries[k][1], entries[k][2],
                                         entries[k][3])]]
    /\ pc' = "done"
    /\ UNCHANGED <<parseVars, optVars, fmtVars, items, i, manual_idx, used_manual,
                   entries>>
    /\ UNCHANGED otherVars

Next ==
    \/ EnsureTimelineExit
    \/ SrtParse
    \/ SrtCollectClips
    \/ WriteSrtOpen
    \/ WriteSrtEntry
    \/ WriteSrtDone
    \/ MixedGatherSort
    \/ MixedEntry
    \/ MixedFinish

Spec == Init /\ [][Next]_vars

(***************************************************************************)
(* SpecParse: parse_manual applied to every short file.                    *)
(***************************************************************************)
FileAlphabet == {">", "a", " ", "\n"}

ExampleFile == Chars("stray\n>First\nline2\n>Second")

RECURSIVE TextsOfLen(_)
TextsOfLen(n) ==
    IF n = 0 THEN {<<>>}
    ELSE {Append(t, c) : t \in TextsOfLen(n - 1), c \in FileAlphabet}

FileTexts == UNION {TextsOfLen(n) : n \in 0..MaxFileLen} \cup {ExampleFile}

OptIdle ==
    /\ timeline = FALSE /\ tracks = <<>> /\ track_name = ""
    /\ include_text_plus = FALSE /\ ignore_effects = TRUE
    /\ extra_ignore = <<>>

InitParse ==
    /\ pc = "parse"
    /\ path \in {"", "manual.txt"}
    /\ fileText \in FileTexts
    /\ blocks = <<>>
    /\ OptIdle
    /\ SrtIdle
    /\ FmtIdle
    /\ IgnoreIdle
    /\ CollectIdle
    /\ WatchIdle

CallParseManual ==
    /\ pc = "parse"
    /\ blocks' = parse_manual(path, fileText)
    /\ pc' = "parsed"
    /\ UNCHANGED <<path, fileText, optVars, fmtVars, srtVars>>
    /\ UNCHANGED otherVars

NextParse == CallParseManual

SpecParse == InitParse /\ [][NextParse]_vars

(***************************************************************************)
(* SpecIgnore: _should_ignore applied to names, durations and patterns.    *)
(***************************************************************************)
NameAlphabet == {"d", "i", "p", "D", "P"}

RECURSIVE NamesOfLen(_)
NamesOfLen(n) ==
    IF n = 0 THEN {<<>>}
    ELSE {Append(t, c) : t \in NamesOfLen(n - 1), c \in NameAlphabet}

ClipNames ==
    UNION {NamesOfLen(n) : n \in 0..MaxNameLen}
        \cup { Chars("AAAAAA"), Chars("AAAAA"), Chars("ABCDEF"), Chars("AaBbCc"),
               Chars("Cross Dissolve"), Chars("cross dissolve 2"),
               Chars("Title 01"), Chars("Spin"),
               <<"T">> \o DEFAULT_IGNORE_NAMES[4] }

ClipDurations == {500, 600, 601, 5000}

ExtraChoices == { <<>>, <<Chars("PI")>>, <<Chars(""), Chars("tle")>> }

InitIgnore ==
    /\ pc = "should_ignore"
    /\ name \in ClipNames
    /\ duration \in ClipDurations
    /\ ignore_effects \in BOOLEAN
    /\ extra_ignore \in ExtraChoices
    /\ ret = FALSE
    /\ timeline = FALSE /\ tracks = <<>> /\ track_name = ""
    /\ include_text_plus = FALSE
    /\ path = "" /\ fileText = <<>> /\ blocks = <<>>
    /\ SrtIdle
    /\ FmtIdle
    /\ CollectIdle
    /\ WatchIdle

CallShouldIgnore ==
    /\ pc = "should_ignore"
    /\ ret' = ShouldIgnore(name, duration, ignore_effects, extra_ignore)
    /\ pc' = "returned"
    /\ UNCHANGED <<name, duration, parseVars, optVars, fmtVars, srtVars, collectVars,
                   watchVars>>

NextIgnore == CallShouldIgnore

SpecIgnore == InitIgnore /\ [][NextIgnore]_vars

(***************************************************************************)
(* SpecCollect: collect_clips_with_ignored and collect_clips on the same   *)
(* timeline with the same flags.                                           *)
(***************************************************************************)
\* a Text clip, a transition, a short clip of a generic name, a Text+ clip,
\* a Text+ clip named as a transition
CollectItems ==
    { [start |-> 0, end |-> 50, name |-> Chars("Title"), comp |-> NoComp],
      [start |-> 0, end |-> 50, name |-> Chars("Dip"),   comp |-> NoComp],
      [start |-> 0, end |-> 10, name |-> Chars("AAAAA"), comp |-> NoComp],
      [start |-> 0, end |-> 50, name |-> Chars("Title"),
       comp |-> Comp(Some(Chars("hi")))],
      [start |-> 0, end |-> 50, name |-> Chars("Dip"),   comp |-> Comp(None)] }

RECURSIVE CollectSeqsOfLen(_)
CollectSeqsOfLen(n) ==
    IF n = 0 THEN {<<>>}
    ELSE {Append(s, x) : s \in CollectSeqsOfLen(n - 1), x \in CollectItems}

InitCollect ==
    /\ pc = "collect"
    /\ timeline \in BOOLEAN
    /\ track_name = "Subs"
    /\ tracks \in IF timeline
                  THEN {<<[name |-> "Subs", items |-> s1],
                          [name |-> n2, items |-> s2]>> :
                            s1 \in UNION {CollectSeqsOfLen(n) : n \in 0..MaxItems},
                            n2 \in {"Subs", "V1"},
                            s2 \in UNION {CollectSeqsOfLen(n) : n \in 0..1}}
                  ELSE {<<>>}
    /\ include_text_plus \in BOOLEAN
    /\ ignore_effects \in BOOLEAN
    /\ extra_ignore \in {<<>>, <<Chars("tit")>>}
    /\ path = "" /\ fileText = <<>> /\ blocks = <<>>
    /\ SrtIdle
    /\ FmtIdle
    /\ IgnoreIdle
    /\ CollectIdle
    /\ WatchIdle

\* data = collect_clips_with_ignored(track, exclude_text_plus=not include..)
CallCollectWithIgnored ==
    /\ pc = "collect"
    /\ LET data == collect_clips_with_ignored(timeline, tracks, track_name,
                       ~include_text_plus, ignore_effects, extra_ignore)
       IN  kept' = data.kept /\ ignored_list' = data.ignored
    /\ pc' = "collect_clips"
    /\ UNCHANGED <<parseVars, optVars, fmtVars, srtVars, ignoreVars, watchVars>>

\* clips = collect_clips(track, exclude_text_plus=not include_text_plus, ...)
CallCollectClips ==
    /\ pc = "collect_clips"
    /\ items' = collect_clips(timeline, tracks, track_name, ~include_text_plus,
                              ignore_effects, extra_ignore)
    /\ pc' = "collected"
    /\ UNCHANGED <<parseVars, optVars, fmtVars, i, manual_idx, used_manual, entries, out,
                   log, ignoreVars, collectVars, watchVars>>

NextCollect ==
    \/ CallCollectWithIgnored
    \/ CallCollectClips

SpecCollect == InitCollect /\ [][NextCollect]_vars

(***************************************************************************)
(* SpecWatch: the watch command polling the clipboard.                     *)
(***************************************************************************)
\* mutant: the first snapshot is appended like any other
WatchPollNoPriming(st, cur) ==
    IF cur # <<>> /\ Strip(cur) # <<>> /\ cur # st.last
    THEN LET block == Strip(cur)
         IN  [primed |-> TRUE, last |-> cur,
              file   |-> st.file
                             \o (IF StartsWith(block, ">") THEN block
                                 ELSE <<">">> \o block)
                             \o <<"\n">>]
    ELSE st

\* one pass of the loop on the decoded clipboard cur; st is primed, last and
\* the content of the output file
WatchPoll(st, cur) ==
    IF cur # <<>> /\ Strip(cur) # <<>>
    THEN IF ~st.primed
         THEN [primed |-> TRUE, last |-> cur, file |-> st.file]
         ELSE IF cur # st.last
              THEN LET block == Strip(cur)
                   IN  [primed |-> st.primed, last |-> cur,
                        file   |-> st.file
                                       \o (IF StartsWith(block, ">") THEN block
                                           ELSE <<">">> \o block)
                                       \o <<"\n">>]
              ELSE st
    ELSE st

\* what pbpaste may give, decoded
ClipTexts ==
    { Chars(""), Chars(" "), Chars("a"), Chars(" a"), Chars("b"), Chars(">b"),
      Chars("a\n>b") }

InitWatch ==
    /\ pc = "watch"
    /\ timeline \in BOOLEAN
    /\ primed = FALSE /\ last = <<>> /\ outText = <<>> /\ snapshots = <<>>
    /\ tracks = <<>> /\ track_name = ""
    /\ include_text_plus = FALSE /\ ignore_effects = TRUE /\ extra_ignore = <<>>
    /\ path = "" /\ fileText = <<>> /\ blocks = <<>>
    /\ SrtIdle
    /\ FmtIdle
    /\ IgnoreIdle
    /\ CollectIdle

\* _ensure_timeline() without a timeline: exit code 1
WatchExit ==
    /\ pc = "watch"
    /\ ~timeline
    /\ pc' = "exit1"
    /\ UNCHANGED <<parseVars, optVars, fmtVars, srtVars, ignoreVars, collectVars,
                   watchVars>>

\* last = '', primed = False, the banner printed
WatchStart ==
    /\ pc = "watch"
    /\ timeline
    /\ primed' = FALSE
    /\ last' = <<>>
    /\ pc' = "polling"
    /\ UNCHANGED <<outText, snapshots, parseVars, optVars, fmtVars, srtVars, ignoreVars,
                   collectVars>>

\* one pass of the while loop: pbpaste, decode, prime or append, sleep
WatchLoop ==
    /\ pc = "polling"
    /\ Len(snapshots) < MaxPolls
    /\ \E cur \in ClipTexts :
           LET st == WatchPoll([primed |-> primed, last |-> last,
                                file |-> outText], cur)
           IN  /\ primed' = st.primed
               /\ last' = st.last
               /\ outText' = st.file
               /\ snapshots' = Append(snapshots, cur)
    /\ UNCHANGED <<pc, parseVars, optVars, fmtVars, srtVars, ignoreVars, collectVars>>

\* KeyboardInterrupt
WatchInterrupt ==
    /\ pc = "polling"
    /\ pc' = "stopped"
    /\ UNCHANGED <<parseVars, optVars, fmtVars, srtVars, ignoreVars, collectVars,
                   watchVars>>

NextWatch ==
    \/ WatchExit
    \/ WatchStart
    \/ WatchLoop
    \/ WatchInterrupt

SpecWatch == InitWatch /\ [][NextWatch]_vars

(***************************************************************************)
(* SpecFmt: _fmt_time on one timestamp.                                    *)
(*                                                                         *)
(* The float sec is the double nearest to ms milliseconds plus frac tenths *)
(* of a microsecond, 0 <= frac < 10000.                                    *)
(***************************************************************************)
\* timedelta(seconds=sec): normalised to days, seconds and microseconds, the
\* microseconds rounded to the nearest, ties to even
timedelta(sec_) ==
    LET tenths == sec_.frac % 10
        us     == sec_.frac \div 10
        r      == IF tenths > 5 \/ (tenths = 5 /\ us % 2 = 1) THEN us + 1
                  ELSE us
        micro  == (sec_.ms % 1000) * 1000 + r
        whole  == sec_.ms \div 1000 + micro \div 1000000
    IN  [days         |-> whole \div 86400,
         seconds      |-> whole % 86400,
         microseconds |-> micro % 1000000]

\* the whole milliseconds k, among the timestamps of SecValues, whose double
\* product (k / 1000.0) * 1000 falls just below k
FloatProductBelow == {1001, 8001, 8040}

\* int(td.total_seconds() * 1000)
TotalMs(td) ==
    LET k == (td.days * 86400 + td.seconds) * 1000 + td.microseconds \div 1000
    IN  IF td.microseconds % 1000 = 0 /\ k \in FloatProductBelow THEN k - 1
        ELSE k

Digit(d) == SubSeq("0123456789", d + 1, d + 1)

RECURSIVE Digits(_)
Digits(n) == IF n < 10 THEN <<Digit(n)>>
             ELSE Append(Digits(n \div 10), Digit(n % 10))

\* f"{n:0<width>d}"
RECURSIVE ZeroPad(_, _)
ZeroPad(ds, width) == IF Len(ds) >= width THEN ds
                      ELSE ZeroPad(<<"0">> \o ds, width)

FmtTime(sec_) ==
    LET total_ms == TotalMs(timedelta(sec_))
        h  == total_ms \div 3600000
        m  == (total_ms \div 60000) % 60
        s  == (total_ms \div 1000) % 60
        ms == total_ms % 1000
    IN  ZeroPad(Digits(h), 2) \o <<":">> \o ZeroPad(Digits(m), 2) \o <<":">>
          \o ZeroPad(Digits(s), 2) \o <<",">> \o ZeroPad(Digits(ms), 3)

\* timestamps: hours, minutes, seconds and milliseconds, and what lies beyond
\* the millisecond; a timestamp of whole milliseconds only where it is a
\* double
SecValues ==
    { [ms |-> h * 3600000 + m * 60000 + s * 1000 + ms, frac |-> f] :
          h \in {0, 1, 100}, m \in {0, 1, 59}, s \in {0, 1, 8, 59},
          ms \in {0, 39, 234, 500, 999}, f \in {0, 4, 5000, 9994, 9996} }

InitFmt ==
    /\ pc = "fmt_time"
    /\ sec \in {v \in SecValues : v.frac = 0 => v.ms % 500 = 0}
    /\ fmt = <<>>
    /\ timeline = FALSE /\ tracks = <<>> /\ track_name = ""
    /\ include_text_plus = FALSE /\ ignore_effects = TRUE /\ extra_ignore = <<>>
    /\ path = "" /\ fileText = <<>> /\ blocks = <<>>
    /\ SrtIdle
    /\ IgnoreIdle
    /\ CollectIdle
    /\ WatchIdle

\* return f"{h:02d}:{m:02d}:{s:02d},{ms:03d}"
CallFmtTime ==
    /\ pc = "fmt_time"
    /\ fmt' = FmtTime(sec)
    /\ pc' = "formatted"
    /\ UNCHANGED <<sec, parseVars, optVars, srtVars, ignoreVars, collectVars,
                   watchVars>>

NextFmt == CallFmtTime

SpecFmt == InitFmt /\ [][NextFmt]_vars

(***************************************************************************)
(* Properties of the srt command (Spec).                                   *)
(***************************************************************************)
HasLine(tag) == \E k \in 1..Len(log) : log[k].tag = tag

InWriteSrt == ~include_text_plus /\ pc \in {"write_srt_loop", "done"}

InMixed == include_text_plus /\ pc \in {"mixed_loop", "done"}

\* C1: plain mode emits exactly min(len(B), len(K)) entries, entry k being
\* (K[k].start, K[k].end, B[k]) numbered k (1-based); nothing of the surplus
\* tail of the longer list is written; the count-mismatch warning, with both
\* counts, is printed if and only if len(B) # len(K).
C1_PlainZip ==
    InWriteSrt =>
        LET n == Min(Len(blocks), Len(items))
            R == out.records
        IN  /\ out.exists
            /\ Len(R) = i /\ i <= n
            /\ pc = "done" => Len(R) = n
            /\ \A k \in 1..Len(R) :
                   R[k] = [idx |-> k, start |-> items[k].start,
                           end |-> items[k].end, text |-> blocks[k]]
            /\ \A k \in (n + 1)..Len(blocks) :
                   \A j \in 1..Len(R) : R[j].text # blocks[k]
            /\ HasLine("warn_mismatch") <=> Len(blocks) # Len(items)
            /\ \A k \in 1..Len(log) :
                   log[k].tag = "warn_mismatch" =>
                       log[k].a = Len(blocks) /\ log[k].b = Len(items)

\* C1 witness: three blocks against two kept clips, two entries written and
\* the warning printed.
C1_Witness ==
    /\ InWriteSrt /\ pc = "done"
    /\ Len(blocks) = 3 /\ Len(items) = 2 /\ Len(out.records) = 2
    /\ HasLine("warn_mismatch")

\* an element that takes its text from the manual blocks: a plain Text clip,
\* or a Text+ clip whose retrieved text is empty or absent
Consuming(it) == ~(it.kind = "text_plus" /\ Truthy(it.api_text))

NumConsuming(k) == Cardinality({j \in 1..k : Consuming(items[j])})

\* the pairing of mixed mode, Own(t) being what a Text+ clip emits of its
\* non-empty text t
MixedPairing(Own(_)) ==
    InMixed =>
        /\ Len(entries) = i
        /\ \A k \in 1..(Len(items) - 1) : items[k].start <= items[k + 1].start
        /\ manual_idx = Min(Len(blocks), NumConsuming(i))
        /\ \A k \in 1..Len(entries) :
               entries[k][3] =
                   IF Consuming(items[k])
                   THEN IF NumConsuming(k) <= Len(blocks)
                        THEN blocks[NumConsuming(k)]
                        ELSE <<>>
                   ELSE Own(items[k].api_text.s)

C3_NoFailureOnMismatch ==
    /\ pc # "raised"
    /\ pc = "write_srt_loop" => i <= PairCount(blocks, items)
    /\ pc = "mixed_loop" => i <= Len(items) /\ manual_idx <= Len(blocks)
    /\ pc = "done" =>
           /\ out.exists
           /\ HasLine("ok")
           /\ ~include_text_plus =>
                  /\ Len(out.records) = Min(Len(blocks), Len(items))
                  /\ Len(blocks) # Len(items) => HasLine("warn_mismatch")
           /\ include_text_plus =>
                  /\ Len(out.records) = Len(items)
                  /\ NumConsuming(Len(items)) < Len(blocks)
                         => HasLine("warn_unused")
                  /\ NumConsuming(Len(items)) > Len(blocks)
                         => HasLine("warn_empty")

\* C3 witness: mixed mode ended with more consuming elements than blocks,
\* an empty-text entry in the file.
C3_Witness ==
    /\ pc = "done" /\ include_text_plus
    /\ Len(blocks) = 1 /\ NumConsuming(Len(items)) = 3
    /\ out.exists /\ out.records[3].text = <<>>

RawTrack == ItemsInTrack(tracks, track_name)

KeptRaw ==
    {k \in 1..Len(RawTrack) :
        ~ShouldIgnore(RawTrack[k].name, Duration(RawTrack[k]), ignore_effects,
                      extra_ignore)}

\* C4: mixed mode writes one entry per kept element, whatever the number of
\* blocks, in non-decreasing order of start, whatever the order of the track.
C4_MixedShape ==
    (include_text_plus /\ pc = "done") =>
        LET R == out.records
        IN  /\ Len(R) = Cardinality(KeptRaw)
            /\ \A k \in 1..(Len(R) - 1) : R[k].start <= R[k + 1].start
            /\ \A k \in 1..Len(R) : R[k].idx = k
            /\ \A t \in {<<Seconds(RawTrack[k].start), Seconds(RawTrack[k].end)>> :
                            k \in KeptRaw} :
                   Cardinality({k \in 1..Len(R) : <<R[k].start, R[k].end>> = t})
                       = Cardinality({k \in KeptRaw :
                             <<Seconds(RawTrack[k].start),
                               Seconds(RawTrack[k].end)>> = t})

\* C4 witness: a track enumerated latest first, with a transition dropped,
\* two entries written against no block at all.
C4_Witness ==
    /\ include_text_plus /\ pc = "done"
    /\ Len(RawTrack) = 3 /\ Cardinality(KeptRaw) = 2
    /\ 1 \in KeptRaw /\ 3 \in KeptRaw
    /\ RawTrack[1].start > RawTrack[3].start
    /\ Len(blocks) = 0 /\ Len(out.records) = 2

(***************************************************************************)
(* Properties of parse_manual (SpecParse).                                 *)
(***************************************************************************)
\* where a '>' line starts in the text
DelimStarts(text) ==
    {p \in 1..Len(text) : text[p] = ">" /\ (p = 1 \/ text[p - 1] = "\n")}

\* the text after the '>' at p, up to the next '>' line or the end
Section(text, p) ==
    LET later == {q \in DelimStarts(text) : q > p}
    IN  SubSeq(text, p + 1, IF later = {} THEN Len(text) ELSE SetMin(later) - 1)

RECURSIVE SectionsFrom(_, _)
SectionsFrom(text, from) ==
    LET rest == {q \in DelimStarts(text) : q >= from}
    IN  IF rest = {} THEN <<>>
        ELSE <<Strip(Section(text, SetMin(rest)))>>
                 \o SectionsFrom(text, SetMin(rest) + 1)

\* C8: the blocks are the sections opened by the '>' lines, each trimmed as
\* a whole, the empty ones dropped, in order; lines before the first '>' are
\* in none; so each block is non-empty and trimmed, there are no more blocks
\* than '>' lines, and the empty path gives the empty list.
C8_ParseManualBlocks ==
    pc = "parsed" =>
        /\ blocks = IF path = "" THEN <<>>
                    ELSE SelectSeq(SectionsFrom(fileText, 1), LAMBDA b : b # <<>>)
        /\ \A k \in 1..Len(blocks) :
               blocks[k] # <<>> /\ Strip(blocks[k]) = blocks[k]
        /\ Len(blocks) <= Cardinality(DelimStarts(fileText))
        /\ (path # "" /\ fileText = ExampleFile)
               => blocks = <<Chars("First\nline2"), Chars("Second")>>

\* C8 witness: the example file parsed to its two blocks, the stray line gone.
C8_Witness ==
    /\ pc = "parsed" /\ path # "" /\ fileText = ExampleFile
    /\ Len(blocks) = 2 /\ blocks[2] = Chars("Second")

\* each block on a '>' line of its own
RECURSIVE Unparse(_)
Unparse(L) ==
    IF L = <<>> THEN <<>>
    ELSE <<">">> \o Head(L) \o <<"\n">> \o Unparse(Tail(L))

\* C9: writing the parsed blocks back, each prefixed with '>' and followed by
\* a newline, and parsing that file gives the same blocks again.
C9_RoundTrip ==
    pc = "parsed" => parse_manual("manual.txt", Unparse(blocks)) = blocks

\* C9 witness: two blocks, one of two lines, from a file that is not the
\* rewritten one.
C9_Witness ==
    /\ pc = "parsed" /\ Len(blocks) = 2
    /\ \E k \in 1..Len(blocks[1]) : blocks[1][k] = "\n"
    /\ Unparse(blocks) # fileText
    /\ parse_manual("manual.txt", Unparse(blocks)) = blocks

(***************************************************************************)
(* Properties of _should_ignore (SpecIgnore).                              *)
(***************************************************************************)
\* the same character, or the two cases of one letter
SameLetter(a, b) ==
    \/ a = b
    \/ \E j \in 1..Len(UpperLetters) :
           {a, b} = {UpperLetters[j], LowerLetters[j]}

\* p is a substring of s, case ignored
InIgnoringCase(p, s) ==
    \E k \in 0..(Len(s) - Len(p)) :
        \A j \in 1..Len(p) : SameLetter(p[j], s[k + j])

\* number of distinct characters of s once lowercased
DistinctIgnoringCase(s) ==
    Cardinality({ {d \in CharSet(s) : SameLetter(c, d)} : c \in CharSet(s) })

PatternHit ==
    \E p \in {DEFAULT_IGNORE_NAMES[k] : k \in 1..Len(DEFAULT_IGNORE_NAMES)}
                 \cup {extra_ignore[k] : k \in 1..Len(extra_ignore)} :
        p # <<>> /\ InIgnoringCase(p, name)

\* C5: with the heuristic enabled an element is ignored if and only if a
\* non-empty built-in or extra pattern is a case-insensitive substring of its
\* name, whatever its duration, or its duration is at most 0.6 s and its
\* lowercased name has fewer than 6 distinct characters; with the heuristic
\* disabled nothing is ignored.
C5_ShouldIgnore ==
    pc = "returned" =>
        ret = (ignore_effects
                 /\ (PatternHit
                       \/ (duration <= 600 /\ DistinctIgnoringCase(name) < 6)))

\* C5 witness: a long clip named "DiP" is ignored for the pattern "Dip".
C5_Witness ==
    /\ pc = "returned" /\ ignore_effects /\ ret
    /\ name = Chars("DiP") /\ duration = 5000 /\ extra_ignore = <<>>

\* C6 as stated: at 0.5 s "AAAAAA" is kept and "AAAAA" ignored; "Cross
\* Dissolve" is ignored at any duration; with the heuristic disabled the two
\* short elements are kept.
C6_FilterCasesAsStated ==
    pc = "returned" =>
        /\ (ignore_effects /\ duration = 500 /\ name = Chars("AAAAAA")) => ~ret
        /\ (ignore_effects /\ duration = 500 /\ name = Chars("AAAAA")) => ret
        /\ (ignore_effects /\ name = Chars("Cross Dissolve")) => ret
        /\ (~ignore_effects /\ duration = 500
              /\ name \in {Chars("AAAAAA"), Chars("AAAAA")}) => ~ret

\* C6, amended: at 0.5 s "AAAAAA" is ignored as "AAAAA" is, both having one
\* distinct character, and "ABCDEF", of six, is kept; "Cross Dissolve" is
\* ignored at any duration; with the heuristic disabled the short elements
\* are kept.
C6_FilterCases ==
    pc = "returned" =>
        /\ (ignore_effects /\ duration = 500 /\ name = Chars("AAAAAA")) => ret
        /\ (ignore_effects /\ duration = 500 /\ name = Chars("AAAAA")) => ret
        /\ (ignore_effects /\ duration = 500 /\ name = Chars("ABCDEF")) => ~ret
        /\ (ignore_effects /\ name = Chars("Cross Dissolve")) => ret
        /\ (~ignore_effects /\ duration = 500
              /\ name \in {Chars("AAAAAA"), Chars("AAAAA"), Chars("ABCDEF")})
               => ~ret

\* C6 witness: "AAAAAA" of 0.5 s, heuristic enabled, ignored.
C6_Witness ==
    /\ pc = "returned" /\ ignore_effects /\ duration = 500
    /\ name = Chars("AAAAAA") /\ ret

(***************************************************************************)
(* Properties of the collection (SpecCollect).                             *)
(***************************************************************************)
\* the elements of s at the positions S, in order
RECURSIVE PickFrom(_, _, _)
PickFrom(s, S, k) ==
    IF k > Len(s) THEN <<>>
    ELSE (IF k \in S THEN <<s[k]>> ELSE <<>>) \o PickFrom(s, S, k + 1)

ItemsOf(list) == [k \in 1..Len(list) |-> list[k].item]

\* C7: kept and ignored partition the raw elements of the named track, each
\* in raw order; every ignored element has one reason; collect_clips returns
\* the same kept sequence.
C7_StablePartition ==
    pc = "collected" =>
        LET raw == IF timeline THEN RawTrack ELSE <<>>
            all == 1..Len(raw)
        IN  /\ Len(kept) + Len(ignored_list) = Len(raw)
            /\ \E S \in SUBSET all :
                   /\ ItemsOf(kept) = PickFrom(raw, S, 1)
                   /\ ItemsOf(ignored_list) = PickFrom(raw, all \ S, 1)
            /\ \A k \in 1..Len(ignored_list) :
                   ignored_list[k].reason \in {"text_plus", "effect"}
            /\ ItemsOf(items) = ItemsOf(kept)
            /\ \A k \in 1..Len(items) :
                   /\ items[k].start = kept[k].start
                   /\ items[k].end = kept[k].end
                   /\ items[k].name = kept[k].name

\* C7 witness: two tracks of the name, elements ignored for either reason
\* between kept ones.
C7_Witness ==
    /\ pc = "collected"
    /\ Len(tracks) = 2 /\ tracks[2].name = track_name
    /\ Len(RawTrack) = 4 /\ Len(kept) = 2 /\ Len(ignored_list) = 2
    /\ ignored_list[1].reason = "text_plus" /\ ignored_list[2].reason = "effect"
    /\ RawTrack[1] = kept[1].item /\ RawTrack[4] = kept[2].item

(***************************************************************************)
(* Properties of the watch command (SpecWatch).                            *)
(***************************************************************************)
\* the step is a poll, of the content Polled
IsPoll == Len(snapshots') = Len(snapshots) + 1

Polled == snapshots'[Len(snapshots')]

\* the content is non-empty once trimmed
NonBlank(t) == \E k \in 1..Len(t) : t[k] \notin Whitespace

PrimingStep ==
    /\ ~primed => outText' = outText
    /\ primed => primed'
    /\ (~primed /\ IsPoll /\ NonBlank(Polled))
           => (primed' /\ last' = Polled)
    /\ (~primed /\ IsPoll /\ ~NonBlank(Polled))
           => (~primed' /\ last' = last)
    /\ (~primed /\ ~IsPoll) => ~primed'

Appended == outText' # outText

ChangeDetectionStep ==
    (primed /\ IsPoll) =>
        LET fresh == NonBlank(Polled) /\ Strip(Polled) # Strip(last)
        IN  /\ fresh => (Appended /\ last' = Polled)
            /\ ~fresh => (outText' = outText /\ last' = last)

\* C11: while primed, a poll appends to the output file and updates last if
\* and only if its trimmed content is non-empty and differs from what was
\* last seen; an empty or unchanged poll leaves the file and last untouched.
C11_ChangeDetection == [][ChangeDetectionStep]_vars

(***************************************************************************)
(* Properties of _fmt_time (SpecFmt).                                      *)
(***************************************************************************)
DigitValue(c) == CHOOSE d \in 0..9 : SubSeq("0123456789", d + 1, d + 1) = c

\* the number a sequence of digits writes
RECURSIVE NatOf(_)
NatOf(ds) ==
    IF ds = <<>> THEN 0
    ELSE NatOf(SubSeq(ds, 1, Len(ds) - 1)) * 10 + DigitValue(ds[Len(ds)])

\* C12: the total of milliseconds is floor(sec * 1000), never rounded up, and
\* the string is h:mm:ss,mmm with h * 3600000 + m * 60000 + s * 1000 + ms that
\* total, m < 60, s < 60, ms < 1000, and the hours written in full.
C12_FmtTimeFloor ==
    pc = "formatted" =>
        LET n  == Len(fmt)
            h  == NatOf(SubSeq(fmt, 1, n - 10))
            m  == NatOf(SubSeq(fmt, n - 8, n - 7))
            s  == NatOf(SubSeq(fmt, n - 5, n - 4))
            ms == NatOf(SubSeq(fmt, n - 2, n))
        IN  /\ n >= 12
            /\ fmt[n - 9] = ":" /\ fmt[n - 6] = ":" /\ fmt[n - 3] = ","
            /\ m < 60 /\ s < 60 /\ ms < 1000
            /\ h * 3600000 + m * 60000 + s * 1000 + ms = sec.ms

(***************************************************************************)
(* The output file of watch read back by parse_manual (SpecWatch).         *)
(***************************************************************************)
\* the snapshots among snaps after which the file had grown, in order; st is
\* the state of the watcher before the first of them
RECURSIVE AcceptedFrom(_, _)
AcceptedFrom(st, snaps) ==
    IF snaps = <<>> THEN <<>>
    ELSE LET nxt == WatchPoll(st, Head(snaps))
         IN  (IF nxt.file # st.file THEN <<Head(snaps)>> ELSE <<>>)
               \o AcceptedFrom(nxt, Tail(snaps))

Accepted ==
    AcceptedFrom([primed |-> FALSE, last |-> <<>>, file |-> <<>>], snapshots)

\* the trimmed text of a snapshot, its leading '>' removed
BlockOf(snap) ==
    LET t == Strip(snap)
    IN  IF StartsWith(t, ">") THEN Strip(Tail(t)) ELSE t

\* C13: parse_manual reads from the output file as many blocks as snapshots
\* were accepted, the k-th block being the trimmed text of the k-th accepted
\* snapshot, without its leading '>' if it had one.
C13_WatchFileParses ==
    LET parsed == parse_manual("out.txt", outText)
    IN  /\ Len(parsed) = Len(Accepted)
        /\ \A k \in 1..Len(parsed) : parsed[k] = BlockOf(Accepted[k])

(***************************************************************************)
(* Empty entries of mixed mode (Spec).                                     *)
(***************************************************************************)
\* the number printed by the warning of empty subtitle entries, 0 if the
\* warning is not printed
ReportedEmpty ==
    IF HasLine("warn_empty")
    THEN (CHOOSE k \in 1..Len(log) : log[k].tag = "warn_empty")
    ELSE 0

\* C14: the manual blocks being those parse_manual returned, an entry has
\* empty text only if the blocks were exhausted when its element was
\* processed; the count of empty entries reported is max(0, consuming
\* elements - len(blocks)); the warning of unused blocks and the warning of
\* empty entries are never both printed.
C14_EmptyOnlyWhenExhausted ==
    (pc = "done" /\ InMixed) =>
        /\ \A k \in 1..Len(entries) :
               entries[k][3] = <<>> => NumConsuming(k - 1) >= Len(blocks)
        /\ LET c == ReportedEmpty
           IN  (IF c = 0 THEN 0 ELSE log[c].a)
                   = Max(0, NumConsuming(Len(items)) - Len(blocks))
        /\ ~(HasLine("warn_unused") /\ HasLine("warn_empty"))

=============================================================================
